---- MODULE Spec2Model ----
(***************************************************************************)
(* Indenty: RoseTree::from_prefixables (src/src/lib.rs) and the Prefixable *)
(* trait it is built on.  Keys are strings, modelled as sequences of       *)
(* characters; the value of the i-th pair the iterator yields is i, so a   *)
(* tree node is identified with the input pair it was built from.          *)
(***************************************************************************)
EXTENDS Integers, Sequences, FiniteSets, TLC

\* Longest key the iterator yields, and most pairs it yields.
MaxKeyLen == 2
MaxLen == 6

\* The characters keys are made of: a space and a tab.
Alphabet == {" ", "\t"}

RECURSIVE SeqsUpTo(_)
SeqsUpTo(n) ==
    IF n = 0 THEN {<<>>}
    ELSE LET shorter == SeqsUpTo(n - 1)
         IN  shorter \cup {Append(s, c) : s \in {t \in shorter : Len(t) = n - 1}, c \in Alphabet}

Keys == SeqsUpTo(MaxKeyLen)

VARIABLES
    pc,        \* position in from_prefixables
    consumed,  \* keys of the pairs the iterator has yielded so far, in order
    stack,     \* indented_forest_stack: frames (indent, forest)
    cur,       \* (current_indent, current_value) of the pair being processed
    result,    \* the value from_prefixables returned, once it has
    cmp        \* a direct call of prefix_ord: operands, key type, answers

vars == <<pc, consumed, stack, cur, result, cmp>>

-----------------------------------------------------------------------------
\* Prefixable

\* str::starts_with / slice::starts_with
starts_with(s, prefix) ==
    /\ Len(prefix) <= Len(s)
    /\ SubSeq(s, 1, Len(prefix)) = prefix

\* Variant: a key is not taken to be a prefix of itself.
is_prefix_of_strict(self, other) == Len(self) < Len(other) /\ starts_with(other, self)

\* impl Prefixable for &str (and for [T])
is_prefix_of(self, other) == starts_with(other, self)

\* impl Prefixable for &'a T
ref_is_prefix_of(self, other) == is_prefix_of(other, self)

\* Prefixable::prefix_ord, the provided method, over an implementation of
\* is_prefix_of.  Option<Ordering> is "Equal", "Less", "Greater" or "None".
\* Variant: the (false, false) arm answers Some(Less).
ord_of_total(fwd, bwd) ==
    CASE fwd /\ bwd -> "Equal"
      [] fwd /\ ~bwd -> "Less"
      [] ~fwd /\ bwd -> "Greater"
      [] ~fwd /\ ~bwd -> "Less"

\* Variant: the Less and Greater arms are exchanged.
ord_of_swapped(fwd, bwd) ==
    CASE fwd /\ bwd -> "Equal"
      [] fwd /\ ~bwd -> "Greater"
      [] ~fwd /\ bwd -> "Less"
      [] ~fwd /\ ~bwd -> "None"

ord_of(fwd, bwd) ==
    CASE fwd /\ bwd -> "Equal"
      [] fwd /\ ~bwd -> "Less"
      [] ~fwd /\ bwd -> "Greater"
      [] ~fwd /\ ~bwd -> "None"

prefix_ord(self, other) ==
    ord_of(is_prefix_of(self, other), is_prefix_of(other, self))

ref_prefix_ord(self, other) ==
    ord_of(ref_is_prefix_of(self, other), ref_is_prefix_of(other, self))

-----------------------------------------------------------------------------
\* RoseTree

node(value) == [value |-> value, children |-> <<>>]

Ok(forest) == [kind |-> "Ok", forest |-> forest]
Err(error) == [kind |-> "Err", error |-> error]
NoResult == [kind |-> "None"]
NoPair == [indent |-> <<>>, value |-> 0]
NoCall == [state |-> "idle"]

last(s) == s[Len(s)]
Front(s) == SubSeq(s, 1, Len(s) - 1)

\* Variant: the new tree is put before the siblings, not after them.
push_front(stk, tree) ==
    [stk EXCEPT ![Len(stk)].forest = <<tree>> \o @]

\* .last_mut().1.push(tree)
push_sibling(stk, tree) ==
    [stk EXCEPT ![Len(stk)].forest = Append(@, tree)]

\* Variant: the popped siblings go under the first sibling, not the last.
fold_first(stk) ==
    LET highest == last(stk).forest
        rest == Front(stk)
    IN  [rest EXCEPT ![Len(rest)].forest[1].children = @ \o highest]

\* let mut highest = <popped frame>.1.into_vec();
\* stack.last_mut().1.last_mut().children.append(&mut highest);
fold(stk) ==
    LET highest == last(stk).forest
        rest == Front(stk)
    IN  [rest EXCEPT ![Len(rest)].forest[Len(rest[Len(rest)].forest)].children = @ \o highest]

\* Variant: any frame whose key is comparable with the target makes it valid.
valid_indent_comparable(target_indent, stk) ==
    \E i \in 1..Len(stk) : prefix_ord(stk[i].indent, target_indent) # "None"

valid_indent(target_indent, stk) ==
    \E i \in 1..Len(stk) : prefix_ord(stk[i].indent, target_indent) = "Equal"

-----------------------------------------------------------------------------
\* from_prefixables

Init ==
    /\ pc = "start"
    /\ consumed = <<>>
    /\ stack = <<>>
    /\ cur = NoPair
    /\ result = NoResult
    /\ cmp = NoCall

\* Variant: the empty iterator is reported as an error.
empty_result_error == Err("EmptyIterator")

\* iter.next() is None on the first call
empty_result == Ok(<<>>)

BeginEmpty ==
    /\ pc = "start"
    /\ result' = empty_result
    /\ pc' = "done"
    /\ UNCHANGED <<consumed, stack, cur, cmp>>

\* iter.next() is Some((base_indent, first_value))
BeginFirst ==
    /\ pc = "start"
    /\ \E base_indent \in Keys :
        /\ consumed' = <<base_indent>>
        /\ stack' = <<[indent |-> base_indent, forest |-> <<node(1)>>]>>
    /\ pc' = "loop"
    /\ UNCHANGED <<cur, result, cmp>>

\* Variant: the error is recorded and the loop goes on.
fail_continue(e) ==
    /\ result' = Err(e)
    /\ pc' = "loop"
    /\ UNCHANGED <<stack, cur>>

\* return Err(e)
fail(e) ==
    /\ result' = Err(e)
    /\ pc' = "done"
    /\ UNCHANGED <<stack, cur>>

\* One iteration of the for loop over a pair the iterator yields.
Step(current_indent, ordering) ==
    /\ pc = "loop"
    /\ Len(consumed) < MaxLen
    /\ prefix_ord(current_indent, last(stack).indent) = ordering
    /\ consumed' = Append(consumed, current_indent)
    /\ UNCHANGED cmp

StepEqual ==
    \E current_indent \in Keys :
        /\ Step(current_indent, "Equal")
        /\ stack' = push_sibling(stack, node(Len(consumed) + 1))
        /\ UNCHANGED <<pc, cur, result>>

StepGreater ==
    \E current_indent \in Keys :
        /\ Step(current_indent, "Greater")
        /\ stack' = Append(stack, [indent |-> current_indent,
                                   forest |-> <<node(Len(consumed) + 1)>>])
        /\ UNCHANGED <<pc, cur, result>>

StepLess ==
    \E current_indent \in Keys :
        /\ Step(current_indent, "Less")
        /\ valid_indent(current_indent, stack)
        /\ cur' = [indent |-> current_indent, value |-> Len(consumed) + 1]
        /\ pc' = "prune_down_to"
        /\ UNCHANGED <<stack, result>>

StepInvalid ==
    \E current_indent \in Keys :
        /\ Step(current_indent, "Less")
        /\ ~valid_indent(current_indent, stack)
        /\ fail("InvalidIndent")

StepIncoherent ==
    \E current_indent \in Keys :
        /\ Step(current_indent, "None")
        /\ fail("IncoherentIndent")

\* prune_down_to: the loop condition
prune_more(target_indent, stk) ==
    prefix_ord(target_indent, last(stk).indent) = "Less"

\* prune_down_to: one iteration; try_pop().unwrap() panics on a one-frame stack
PruneDownToPop ==
    /\ pc = "prune_down_to"
    /\ prune_more(cur.indent, stack)
    /\ IF Len(stack) = 1
       THEN /\ result' = [kind |-> "Panic"]
            /\ pc' = "done"
            /\ UNCHANGED stack
       ELSE /\ stack' = fold(stack)
            /\ UNCHANGED <<pc, result>>
    /\ UNCHANGED <<consumed, cur, cmp>>

\* prune_down_to returns; the Less arm pushes the new leaf
PruneDownToExit ==
    /\ pc = "prune_down_to"
    /\ ~prune_more(cur.indent, stack)
    /\ stack' = push_sibling(stack, node(cur.value))
    /\ cur' = NoPair
    /\ pc' = "loop"
    /\ UNCHANGED <<consumed, result, cmp>>

\* iter.next() is None: the for loop ends
EndOfInput ==
    /\ pc = "loop"
    /\ pc' = "prune_down"
    /\ UNCHANGED <<consumed, stack, cur, result, cmp>>

\* Variant: the collapse stops one frame early.
can_pop_early(stk) == Len(stk) > 2

\* prune_down: try_pop() is Ok exactly when more than one frame is left
can_pop(stk) == Len(stk) > 1

PruneDownPop ==
    /\ pc = "prune_down"
    /\ can_pop(stack)
    /\ stack' = fold(stack)
    /\ UNCHANGED <<pc, consumed, cur, result, cmp>>

\* Variant: the last frame is popped off before the result is read.
final_result_after_pop(stk) ==
    IF Front(stk) = <<>> THEN Err("Internal") ELSE Ok(last(Front(stk)).forest)

\* .into_vec().pop().map(|(_, t)| t.into_vec()).ok_or(Internal)
final_result(stk) ==
    IF stk = <<>> THEN Err("Internal") ELSE Ok(last(stk).forest)

Return ==
    /\ pc = "prune_down"
    /\ ~can_pop(stack)
    /\ result' = final_result(stack)
    /\ pc' = "done"
    /\ UNCHANGED <<consumed, stack, cur, cmp>>

Next ==
    \/ BeginEmpty
    \/ BeginFirst
    \/ StepEqual
    \/ StepGreater
    \/ StepLess
    \/ StepInvalid
    \/ StepIncoherent
    \/ PruneDownToPop
    \/ PruneDownToExit
    \/ EndOfInput
    \/ PruneDownPop
    \/ Return

Spec == Init /\ [][Next]_vars

\* from_prefixables is sequential code on one thread: while it has not
\* returned it takes its next step.
FairSpec == Spec /\ WF_vars(Next)

-----------------------------------------------------------------------------
\* Direct calls of the trait's methods, on &str keys and on keys behind the
\* generic reference implementation.

InitOrd ==
    /\ pc = "start"
    /\ consumed = <<>>
    /\ stack = <<>>
    /\ cur = NoPair
    /\ result = NoResult
    /\ cmp \in {[state |-> "call", self |-> a, other |-> b, by_ref |-> r] :
                    a \in Keys, b \in Keys, r \in BOOLEAN}

returned(is_prefix, ord, rev) ==
    [state |-> "returned", self |-> cmp.self, other |-> cmp.other, by_ref |-> cmp.by_ref,
     is_prefix |-> is_prefix, ord |-> ord, rev |-> rev]

\* self.is_prefix_of(other), self.prefix_ord(other), other.prefix_ord(self)
CallStr ==
    /\ cmp.state = "call"
    /\ ~cmp.by_ref
    /\ cmp' = returned(is_prefix_of(cmp.self, cmp.other),
                       prefix_ord(cmp.self, cmp.other),
                       prefix_ord(cmp.other, cmp.self))
    /\ UNCHANGED <<pc, consumed, stack, cur, result>>

\* The same calls on (&self).is_prefix_of(&other), through impl Prefixable for &T
CallRef ==
    /\ cmp.state = "call"
    /\ cmp.by_ref
    /\ cmp' = returned(ref_is_prefix_of(cmp.self, cmp.other),
                       ref_prefix_ord(cmp.self, cmp.other),
                       ref_prefix_ord(cmp.other, cmp.self))
    /\ UNCHANGED <<pc, consumed, stack, cur, result>>

NextOrd == CallStr \/ CallRef

SpecOrd == InitOrd /\ [][NextOrd]_vars

-----------------------------------------------------------------------------
\* Vocabulary of the properties: the prefix relation on keys and the shape of
\* a forest, stated without the operators of the implementation.

StrictPrefix(a, b) ==
    /\ Len(a) < Len(b)
    /\ \A i \in 1..Len(a) : a[i] = b[i]

Comparable(a, b) == a = b \/ StrictPrefix(a, b) \/ StrictPrefix(b, a)

RECURSIVE TreeValues(_), ForestValues(_)
ForestValues(f) == UNION {TreeValues(f[i]) : i \in 1..Len(f)}
TreeValues(t) == {t.value} \cup ForestValues(t.children)

\* <<v, d>>: the node of pair v is at depth d (roots at depth d0)
RECURSIVE TreeDepths(_, _), ForestDepths(_, _)
ForestDepths(f, d0) == UNION {TreeDepths(f[i], d0) : i \in 1..Len(f)}
TreeDepths(t, d0) == {<<t.value, d0>>} \cup ForestDepths(t.children, d0 + 1)

\* <<p, v>>: the node of pair v is a child of the node of pair p (0: a root)
RECURSIVE TreeEdges(_, _), ForestEdges(_, _)
ForestEdges(f, p) == UNION {TreeEdges(f[i], p) : i \in 1..Len(f)}
TreeEdges(t, p) == {<<p, t.value>>} \cup ForestEdges(t.children, t.value)

Leaves(n) == [i \in 1..n |-> node(i)]

RECURSIVE Chain(_, _)
Chain(i, n) == [value |-> i, children |-> IF i = n THEN <<>> ELSE <<Chain(i + 1, n)>>]

Max(S) == CHOOSE m \in S : \A x \in S : x <= m

Sp == <<" ">>
SpSp == <<" ", " ">>
Tab == <<"\t">>

Succeeded == pc = "done" /\ result.kind = "Ok"
Failed(e) == pc = "done" /\ result = Err(e)

-----------------------------------------------------------------------------
\* C1: on success the roots are exactly the pairs whose key equals the first
\* pair's key, in input order, and every pair between two consecutive such
\* pairs is a descendant of the root built from the earlier of the two.
C1_RootsAreBaseLevel ==
    Succeeded =>
        LET n == Len(consumed)
            f == result.forest
            Base == {i \in 1..n : consumed[i] = consumed[1]}
        IN  /\ Len(f) = Cardinality(Base)
            /\ \A j \in 1..Len(f) :
                  /\ f[j].value \in Base
                  /\ \A k \in 1..(j - 1) : f[k].value < f[j].value
            /\ \A i \in 1..n : \A b1, b2 \in Base :
                  (b1 < i /\ i < b2 /\ ~\E b \in Base : b1 < b /\ b < b2)
                  => \E j \in 1..Len(f) :
                        f[j].value = b1 /\ i \in ForestValues(f[j].children)

\* The run of tests::base_indent_respected
C1_Witness ==
    /\ Succeeded
    /\ consumed = <<Sp, SpSp, Sp, SpSp, SpSp, Sp>>
    /\ result.forest = <<[value |-> 1, children |-> <<node(2)>>],
                         [value |-> 3, children |-> <<node(4), node(5)>>],
                         node(6)>>

\* C2: a dedent to a key that no frame on the stack holds fails with
\* InvalidIndent (also when the key is a strict prefix of the base frame's
\* key), and a dedent is accepted only when some frame's key is that key.
C2_InvalidIndent ==
    [][(pc = "loop" /\ consumed' # consumed
          /\ StrictPrefix(last(consumed'), last(stack).indent))
       => IF \E i \in 1..Len(stack) : stack[i].indent = last(consumed')
          THEN result' = NoResult /\ pc' = "prune_down_to"
          ELSE result' = Err("InvalidIndent") /\ pc' = "done"]_vars

\* The run of tests::base_indent_is_invalid_indent_error
C2_Witness ==
    /\ Failed("InvalidIndent")
    /\ consumed = <<Sp, <<>>>>

\* C3: a key incomparable with the innermost frame's key fails with
\* IncoherentIndent, whatever its relation to the shallower frames.
C3_IncoherentIndent ==
    [][(pc = "loop" /\ consumed' # consumed
          /\ ~Comparable(last(consumed'), last(stack).indent))
       => (result' = Err("IncoherentIndent") /\ pc' = "done")]_vars

\* The run of tests::incoherent_indentation: the tab is comparable with the
\* base frame's key but not with the innermost frame's
C3_Witness ==
    /\ Failed("IncoherentIndent")
    /\ consumed = <<<<>>, Sp, Tab>>
    /\ Len(stack) = 2

\* C4: N >= 1 pairs, each key a proper extension of the one before, give one
\* root with a linear chain of single children below it.
C4_IncreasingChain ==
    (pc = "done" /\ Len(consumed) >= 1
       /\ \A i \in 1..(Len(consumed) - 1) : StrictPrefix(consumed[i], consumed[i + 1]))
    => result = Ok(<<Chain(1, Len(consumed))>>)

C4_Witness ==
    /\ Succeeded
    /\ Len(consumed) = MaxKeyLen + 1
    /\ \A i \in 1..(Len(consumed) - 1) : StrictPrefix(consumed[i], consumed[i + 1])

\* C5: N pairs with one and the same key give N childless roots carrying the
\* values in input order.
C5_FlatSequence ==
    (pc = "done" /\ \A i, j \in 1..Len(consumed) : consumed[i] = consumed[j])
    => result = Ok(Leaves(Len(consumed)))

C5_Witness ==
    /\ Succeeded
    /\ Len(consumed) = 4
    /\ \A i \in 1..4 : consumed[i] = <<>>

\* C6: the empty input gives the empty forest, not an error.
C6_EmptyInput ==
    (pc = "done" /\ consumed = <<>>) => result = Ok(<<>>)

C6_Witness ==
    /\ pc = "done"
    /\ consumed = <<>>

\* C7: through the generic reference implementation is_prefix_of and
\* prefix_ord answer as they do on the keys referred to.
C7_RefDelegates ==
    (cmp.state = "returned" /\ cmp.by_ref)
    => /\ cmp.is_prefix = is_prefix_of(cmp.self, cmp.other)
       /\ cmp.ord = prefix_ord(cmp.self, cmp.other)

Depth(D, v) == CHOOSE d \in 0..MaxLen : <<v, d>> \in D
Parent(E, v) == CHOOSE p \in 0..MaxLen : <<p, v>> \in E

RECURSIVE Ancestors(_, _)
Ancestors(E, v) ==
    LET p == Parent(E, v)
    IN  IF p = 0 THEN {} ELSE {p} \cup Ancestors(E, p)

\* The node of x is a root or a child of a proper ancestor of the node of y:
\* it is the node of y, an ancestor of it, or a sibling of one of these.
OnPathOf(E, x, y) == Parent(E, x) = 0 \/ Parent(E, x) \in Ancestors(E, y)

DepthAgrees(D, x, y) ==
    /\ Depth(D, x) = Depth(D, y) <=> consumed[x] = consumed[y]
    /\ Depth(D, x) < Depth(D, y) <=> StrictPrefix(consumed[x], consumed[y])

\* C9 as stated: for every two pairs of a successful run, equal depth iff
\* equal keys, and shallower iff strict prefix.
C9_DepthOrderAllPairs ==
    Succeeded =>
        LET D == ForestDepths(result.forest, 0)
        IN  \A x, y \in 1..Len(consumed) : DepthAgrees(D, x, y)

\* C9, amended: the same for every two pairs x and y such that the node of x
\* is the node of y, an ancestor of it, or a sibling of one of these.
C9_DepthOrderOnPath ==
    Succeeded =>
        LET D == ForestDepths(result.forest, 0)
            E == ForestEdges(result.forest, 0)
        IN  \A x, y \in 1..Len(consumed) :
                OnPathOf(E, x, y) => DepthAgrees(D, x, y)

C9_Witness ==
    /\ Succeeded
    /\ LET D == ForestDepths(result.forest, 0)
           E == ForestEdges(result.forest, 0)
       IN  /\ \E x, y \in 1..Len(consumed) :
                 /\ OnPathOf(E, x, y)
                 /\ 0 < Depth(D, x)
                 /\ Depth(D, x) < Depth(D, y)
           /\ \E x, y \in 1..Len(consumed) :
                 /\ ~OnPathOf(E, x, y)
                 /\ ~OnPathOf(E, y, x)
                 /\ ~DepthAgrees(D, x, y)

Offending(k, stk) ==
    \/ ~Comparable(k, last(stk).indent)
    \/ /\ StrictPrefix(k, last(stk).indent)
       /\ ~\E i \in 1..Len(stk) : stk[i].indent = k

ErrorOf(k, stk) ==
    IF Comparable(k, last(stk).indent) THEN "InvalidIndent" ELSE "IncoherentIndent"

StackValues == UNION {ForestValues(stack[i].forest) : i \in 1..Len(stack)}

\* C10: the first offending pair ends the run with the error its key and the
\* stack before it determine; an error is returned at no other step, the
\* stack is left as it was, and nothing happens after a result is returned.
C10_StopsAtFirstError ==
    [][/\ (pc = "loop" /\ consumed' # consumed /\ Offending(last(consumed'), stack))
          => /\ pc' = "done"
             /\ result' = Err(ErrorOf(last(consumed'), stack))
             /\ stack' = stack
       /\ (result'.kind = "Err" /\ result.kind # "Err")
          => /\ pc = "loop"
             /\ consumed' # consumed
             /\ Offending(last(consumed'), stack)
       /\ (result # NoResult \/ pc = "done") => vars' = vars]_vars

C10_Witness ==
    /\ pc = "done"
    /\ result.kind = "Err"
    /\ Len(consumed) = 4
    /\ Len(stack) = 2
    /\ StackValues = 1..3

\* C11: a run ends in a forest, IncoherentIndent or InvalidIndent, never in
\* Internal or EmptyIterator (nor in a panic): when the result is read the
\* collapsed stack is exactly the base frame.
C11_NoInternalNoEmptyIterator ==
    pc = "done" =>
        /\ \/ result.kind = "Ok"
           \/ result = Err("IncoherentIndent")
           \/ result = Err("InvalidIndent")
        /\ (result.kind = "Ok" /\ consumed # <<>>)
           => /\ Len(stack) = 1
              /\ stack[1].indent = consumed[1]
              /\ result.forest = stack[1].forest

C11_Witness ==
    /\ Succeeded
    /\ Len(consumed) = 5
    /\ Len(stack) = 1
    /\ Len(result.forest) = 2
    /\ ForestValues(result.forest) = 1..5

\* C12: on non-empty input the stack always holds at least one frame, the
\* first of them the base frame, every frame holds at least one tree, and
\* prune_down_to never has to pop a one-frame stack.
C12_NonEmptyStackAndFrames ==
    consumed # <<>> =>
        /\ Len(stack) >= 1
        /\ stack[1].indent = consumed[1]
        /\ \A i \in 1..Len(stack) : Len(stack[i].forest) >= 1
        /\ (pc = "prune_down_to" /\ StrictPrefix(cur.indent, last(stack).indent))
           => Len(stack) > 1
        /\ result.kind # "Panic"

\* Between the two pops of a dedent that crosses two frames
C12_Witness ==
    /\ pc = "prune_down_to"
    /\ consumed = <<<<>>, Sp, SpSp, <<>>>>
    /\ Len(stack) = 2
    /\ stack[2].forest = <<[value |-> 2, children |-> <<node(3)>>]>>

\* C13: the keys of the frames on the stack form a strictly increasing
\* prefix chain, so no two frames have the same key.
C13_StackIsPrefixChain ==
    \A i, j \in 1..Len(stack) :
        i < j => StrictPrefix(stack[i].indent, stack[j].indent)

C13_Witness ==
    /\ pc = "loop"
    /\ Len(stack) = 3
    /\ Len(consumed) = 5

\* The sibling sequence of frame i once every frame above it has been folded
\* down: the siblings of frame i + 1, folded likewise, come at the end of the
\* children of the last sibling of frame i.
RECURSIVE Folded(_, _)
Folded(stk, i) ==
    IF i = Len(stk) THEN stk[i].forest
    ELSE LET f == stk[i].forest
             t == f[Len(f)]
         IN  SubSeq(f, 1, Len(f) - 1)
               \o <<[value |-> t.value, children |-> t.children \o Folded(stk, i + 1)]>>

\* The stack after a dedent to key k with value v: the frames below the one
\* keyed k as they were, that frame with all the frames above folded into it,
\* and the new leaf as its last sibling.
AfterDedent(stk, k, v) ==
    LET j == CHOOSE i \in 1..Len(stk) : stk[i].indent = k
    IN  SubSeq(stk, 1, j - 1)
          \o <<[indent |-> k, forest |-> Append(Folded(stk, j), node(v))]>>

\* C14: a dedent that passes the validity check starts from the stack as it
\* is, each of its pops keeps the stack on course to AfterDedent, and it ends
\* with exactly that stack: the matching frame innermost, every frame above
\* it folded in order under the last sibling below, the new leaf last.
C14_DedentFolds ==
    [][/\ (pc = "loop" /\ pc' = "prune_down_to")
          => /\ stack' = stack
             /\ cur' = [indent |-> last(consumed'), value |-> Len(consumed')]
             /\ \E i \in 1..Len(stack) : stack[i].indent = cur'.indent
       /\ (pc = "prune_down_to" /\ pc' = "prune_down_to")
          => /\ cur' = cur
             /\ Len(stack') = Len(stack) - 1
             /\ AfterDedent(stack', cur.indent, cur.value)
                  = AfterDedent(stack, cur.indent, cur.value)
       /\ (pc = "prune_down_to" /\ pc' # "prune_down_to")
          => /\ pc' = "loop"
             /\ last(stack).indent = cur.indent
             /\ stack' = AfterDedent(stack, cur.indent, cur.value)]_vars

\* A dedent across two frames, below a sibling that stays childless
C14_Witness ==
    /\ pc = "loop"
    /\ consumed = <<<<>>, <<>>, Sp, SpSp, <<>>>>
    /\ stack = <<[indent |-> <<>>,
                  forest |-> <<node(1),
                               [value |-> 2, children |->
                                   <<[value |-> 3, children |-> <<node(4)>>]>>],
                               node(5)>>]>>

RECURSIVE Subtrees(_)
Subtrees(f) == UNION {{f[i]} \cup Subtrees(f[i].children) : i \in 1..Len(f)}

\* C15: in a successful run the node of pair i has children iff pair i + 1
\* exists with a key that properly extends the key of pair i, and then its
\* first child is the node of pair i + 1.
C15_ChildrenIffNextDeeper ==
    Succeeded =>
        \A t \in Subtrees(result.forest) :
            LET i == t.value
            IN  /\ t.children # <<>>
                   <=> (i < Len(consumed) /\ StrictPrefix(consumed[i], consumed[i + 1]))
                /\ t.children # <<>> => t.children[1].value = i + 1

C15_Witness ==
    /\ Succeeded
    /\ consumed = <<<<>>, Sp, Sp, SpSp, <<>>>>
    /\ result.forest = <<[value |-> 1, children |->
                             <<node(2), [value |-> 3, children |-> <<node(4)>>]>>],
                         node(5)>>

\* C16: the builder terminates; as long as no pair offends, the pairs taken
\* so far are exactly the ones on the stack, each once, and a run without an
\* offending pair ends with exactly one frame, the base frame made from the
\* first pair, whose sibling sequence is the forest returned.
C16_Terminates ==
    /\ <>(pc = "done")
    /\ [](result.kind # "Err" =>
            /\ StackValues \cup ({cur.value} \ {0}) = 1..Len(consumed)
            /\ (pc = "done" /\ consumed # <<>>)
               => /\ Len(stack) = 1
                  /\ stack[1].indent = consumed[1]
                  /\ stack[1].forest[1].value = 1
                  /\ result = Ok(stack[1].forest))

\* A run that ends after finalization has popped two frames
C16_Witness ==
    /\ Succeeded
    /\ consumed = <<<<>>, Sp, <<>>, Sp, SpSp, SpSp>>
    /\ Len(stack) = 1
    /\ StackValues = 1..6

\* C17: a pair whose key equals, or properly extends, the innermost frame's
\* key leaves every frame and tree already built as it is; the depth stays
\* (Equal) or grows by one (Greater), and the one addition is a childless
\* leaf, last sibling of the innermost frame (Equal) or sole sibling of a
\* new frame keyed by the pair's key (Greater).
C17_EqualGreaterFrame ==
    [][(pc = "loop" /\ consumed' # consumed)
       => LET k == last(consumed')
              n == Len(stack)
              leaf == [value |-> Len(consumed'), children |-> <<>>]
          IN  /\ k = stack[n].indent
                 => /\ Len(stack') = n
                    /\ \A i \in 1..(n - 1) : stack'[i] = stack[i]
                    /\ stack'[n].indent = stack[n].indent
                    /\ Len(stack'[n].forest) = Len(stack[n].forest) + 1
                    /\ \A j \in 1..Len(stack[n].forest) :
                          stack'[n].forest[j] = stack[n].forest[j]
                    /\ last(stack'[n].forest) = leaf
                    /\ pc' = "loop" /\ result' = result
              /\ StrictPrefix(stack[n].indent, k)
                 => /\ Len(stack') = n + 1
                    /\ \A i \in 1..n : stack'[i] = stack[i]
                    /\ stack'[n + 1].indent = k
                    /\ stack'[n + 1].forest = <<leaf>>
                    /\ pc' = "loop" /\ result' = result]_vars

\* A Greater step and then an Equal step above a base frame of two siblings
C17_Witness ==
    /\ pc = "loop"
    /\ consumed = <<<<>>, <<>>, Sp, Sp>>
    /\ stack = <<[indent |-> <<>>, forest |-> <<node(1), node(2)>>],
                 [indent |-> Sp, forest |-> <<node(3), node(4)>>]>>

RECURSIVE Preorder(_)
Preorder(f) ==
    IF f = <<>> THEN <<>>
    ELSE <<f[1].value>> \o Preorder(f[1].children) \o Preorder(Tail(f))

\* C18: the forest of a successful run has one node per input pair, and its
\* pre-order traversal lists the values in input order.
C18_PreorderIsInputOrder ==
    Succeeded => Preorder(result.forest) = [i \in 1..Len(consumed) |-> i]

C18_Witness ==
    /\ Succeeded
    /\ Len(consumed) = 6
    /\ Len(result.forest) = 2
    /\ \E t \in Subtrees(result.forest) :
          Len(t.children) = 2 /\ t.children[1].children # <<>>

\* C19: in a returned forest the key of a proper ancestor is a strict prefix
\* of the key of its descendant, the children of one parent have the same
\* key, and every root has the key of the first pair.
C19_KeysFollowShape ==
    Succeeded =>
        LET E == ForestEdges(result.forest, 0)
            N == 1..Len(consumed)
        IN  /\ \A y \in N : \A x \in Ancestors(E, y) :
                  StrictPrefix(consumed[x], consumed[y])
            /\ \A x, y \in N :
                  Parent(E, x) = Parent(E, y) => consumed[x] = consumed[y]
            /\ \A x \in N : Parent(E, x) = 0 => consumed[x] = consumed[1]

C19_Witness ==
    /\ Succeeded
    /\ consumed = <<Sp, SpSp, SpSp, Sp, <<" ", "\t">>>>
    /\ Len(result.forest) = 2

====
